---- MODULE Spec2Model ----
(***************************************************************************)
(* Resource-credit pricing demo (rcdemo.py): the operation visitor, the    *)
(* per-transaction resource counter, the pricing curve, the pool decay and *)
(* the RCModel that composes them.                                         *)
(*                                                                         *)
(* Python integers are unbounded, so no operator truncates.  A Python      *)
(* exception is modelled as a result record whose err field names the      *)
(* exception class; a normal return has err = "none".                      *)
(***************************************************************************)
EXTENDS Integers, Sequences, FiniteSets, TLC

VARIABLES
    resource_pool,  \* RCModel.resource_pool: resource name -> pool balance
    call,           \* the latest call: its name and its arguments
    ret             \* what the latest call returned (or raised)

vars == <<resource_pool, call, ret>>

(***************************************************************************)
(* Bounds of the input sets.                                               *)
(***************************************************************************)
MaxCoeff  == 2   \* coeff_a, coeff_b range over -1..MaxCoeff
MaxShift  == 1   \* shift and decay_per_time_unit_denom_shift over 0..MaxShift
MaxPool   == 3   \* current_pool over -MaxPool..MaxPool
MaxUsage  == 2   \* resource_count over -MaxUsage..MaxUsage
MaxRegen  == 2   \* rc_regen over -1..MaxRegen
MaxDecay  == 2   \* decay_per_time_unit over -1..MaxDecay
MaxDt     == 2   \* dt over 0..MaxDt

(***************************************************************************)
(* Results.                                                                *)
(***************************************************************************)
\* no call has returned yet
None == [err |-> "pending"]

Ok(v) == [err |-> "none", val |-> v]

Raise(e) == [err |-> e]

Max(a, b) == IF a >= b THEN a ELSE b

Min(a, b) == IF a <= b THEN a ELSE b

Abs(a) == IF a < 0 THEN -a ELSE a

\* Python's x >> s on unbounded integers: floor(x / 2^s), for s >= 0
ShiftRight(x, s) == x \div (2 ^ s)

\* unary minus applied to the result of a call: an exception propagates
Negate(r) == IF r.err = "none" THEN Ok(-r.val) ELSE r

(***************************************************************************)
(* compute_rc_cost_of_resource                                             *)
(***************************************************************************)
RECURSIVE compute_rc_cost_of_resource(_, _, _, _)

\* the positive-usage branch of the curve, shared by the variants below
CurveNum(curve_params, resource_count, rc_regen) ==
    (ShiftRight(rc_regen * curve_params.coeff_a, curve_params.shift) + 1) * resource_count

\* variant: the trailing +1 is dropped
compute_rc_cost_NoPlusOne(curve_params, current_pool, resource_count, rc_regen) ==
    IF resource_count <= 0
    THEN IF resource_count < 0
         THEN Negate(compute_rc_cost_of_resource(curve_params, current_pool,
                                                 -resource_count, rc_regen))
         ELSE Ok(0)
    ELSE LET denom == curve_params.coeff_b + Max(current_pool, 0)
         IN  IF denom = 0
             THEN Raise("ZeroDivisionError")
             ELSE Ok(CurveNum(curve_params, resource_count, rc_regen) \div denom)

\* variant: a negative usage is priced by the formula directly, without the
\* sign-symmetric recursion
compute_rc_cost_NoSymmetry(curve_params, current_pool, resource_count, rc_regen) ==
    IF resource_count = 0
    THEN Ok(0)
    ELSE LET denom == curve_params.coeff_b + Max(current_pool, 0)
         IN  IF denom = 0
             THEN Raise("ZeroDivisionError")
             ELSE Ok((CurveNum(curve_params, resource_count, rc_regen) \div denom) + 1)

\* variant: the pool is subtracted from coeff_b instead of added
compute_rc_cost_PoolSubtracted(curve_params, current_pool, resource_count, rc_regen) ==
    IF resource_count <= 0
    THEN IF resource_count < 0
         THEN Negate(compute_rc_cost_of_resource(curve_params, current_pool,
                                                 -resource_count, rc_regen))
         ELSE Ok(0)
    ELSE LET denom == curve_params.coeff_b - Max(current_pool, 0)
         IN  IF denom = 0
             THEN Raise("ZeroDivisionError")
             ELSE Ok((CurveNum(curve_params, resource_count, rc_regen) \div denom) + 1)

compute_rc_cost_of_resource(curve_params, current_pool, resource_count, rc_regen) ==
    IF resource_count <= 0
    THEN IF resource_count < 0
         THEN Negate(compute_rc_cost_of_resource(curve_params, current_pool,
                                                 -resource_count, rc_regen))
         ELSE Ok(0)
    ELSE LET num0  == rc_regen
             num1  == num0 * curve_params.coeff_a
             num2  == ShiftRight(num1, curve_params.shift)
             num3  == num2 + 1
             num   == num3 * resource_count
             denom == curve_params.coeff_b + Max(current_pool, 0)
         IN  IF denom = 0
             THEN Raise("ZeroDivisionError")
             ELSE Ok((num \div denom) + 1)

(***************************************************************************)
(* rd_compute_pool_decay                                                   *)
(***************************************************************************)
RECURSIVE rd_compute_pool_decay(_, _, _)

\* variant: the result is not clamped to the pool
rd_compute_pool_decay_NoClamp(decay_params, current_pool, dt) ==
    IF current_pool < 0
    THEN -rd_compute_pool_decay(decay_params, -current_pool, dt)
    ELSE ShiftRight(decay_params.decay_per_time_unit * dt * current_pool,
                    decay_params.decay_per_time_unit_denom_shift)

\* variant: the pool is added to the decay amount instead of multiplied
rd_compute_pool_decay_PoolAdded(decay_params, current_pool, dt) ==
    IF current_pool < 0
    THEN -rd_compute_pool_decay(decay_params, -current_pool, dt)
    ELSE Min(ShiftRight(decay_params.decay_per_time_unit * dt + current_pool,
                        decay_params.decay_per_time_unit_denom_shift),
             current_pool)

rd_compute_pool_decay(decay_params, current_pool, dt) ==
    IF current_pool < 0
    THEN -rd_compute_pool_decay(decay_params, -current_pool, dt)
    ELSE LET decay_amount0 == decay_params.decay_per_time_unit * dt
             decay_amount1 == decay_amount0 * current_pool
             decay_amount  == ShiftRight(decay_amount1,
                                         decay_params.decay_per_time_unit_denom_shift)
             result        == decay_amount
         IN  Min(result, current_pool)

(***************************************************************************)
(* Configuration tables: resource_params["size_info"].                     *)
(***************************************************************************)
size_info ==
    [authority_base_size |-> 40000,
     authority_account_member_size |-> 180000,
     authority_key_member_size |-> 350000,
     account_object_base_size |-> 4800000,
     account_authority_object_base_size |-> 400000,
     account_recovery_request_object_base_size |-> 320000,
     comment_object_base_size |-> 2010000,
     comment_object_permlink_char_size |-> 10000,
     comment_object_parent_permlink_char_size |-> 20000,
     comment_object_beneficiaries_member_size |-> 180000,
     comment_vote_object_base_size |-> 470000,
     convert_request_object_base_size |-> 480000,
     decline_voting_rights_request_object_base_size |-> 280000,
     escrow_object_base_size |-> 1190000,
     limit_order_object_base_size |-> 147440,
     savings_withdraw_object_byte_size |-> 14656,
     transaction_object_base_size |-> 6090,
     transaction_object_byte_size |-> 174,
     vesting_delegation_object_base_size |-> 600000,
     vesting_delegation_expiration_object_base_size |-> 440000,
     withdraw_vesting_route_object_base_size |-> 430000,
     witness_object_base_size |-> 2660000,
     witness_object_url_char_size |-> 10000,
     witness_vote_object_base_size |-> 400000,
     STATE_BYTES_SCALE |-> 10000]

exec_info ==
    [account_create_operation_exec_time |-> 57700,
     account_create_with_delegation_operation_exec_time |-> 57700,
     account_update_operation_exec_time |-> 14000,
     account_witness_proxy_operation_exec_time |-> 117000,
     account_witness_vote_operation_exec_time |-> 23000,
     cancel_transfer_from_savings_operation_exec_time |-> 11500,
     change_recovery_account_operation_exec_time |-> 12000,
     claim_account_operation_exec_time |-> 10000,
     claim_reward_balance_operation_exec_time |-> 50300,
     comment_operation_exec_time |-> 114100,
     comment_options_operation_exec_time |-> 13200,
     convert_operation_exec_time |-> 15700,
     create_claimed_account_operation_exec_time |-> 57700,
     custom_operation_exec_time |-> 228000,
     custom_json_operation_exec_time |-> 228000,
     custom_binary_operation_exec_time |-> 228000,
     decline_voting_rights_operation_exec_time |-> 5300,
     delegate_vesting_shares_operation_exec_time |-> 19900,
     delete_comment_operation_exec_time |-> 51100,
     escrow_approve_operation_exec_time |-> 9900,
     escrow_dispute_operation_exec_time |-> 11500,
     escrow_release_operation_exec_time |-> 17200,
     escrow_transfer_operation_exec_time |-> 19100,
     feed_publish_operation_exec_time |-> 6200,
     limit_order_cancel_operation_exec_time |-> 9600,
     limit_order_create_operation_exec_time |-> 31700,
     limit_order_create2_operation_exec_time |-> 31700,
     request_account_recovery_operation_exec_time |-> 54400,
     set_withdraw_vesting_route_operation_exec_time |-> 17900,
     transfer_from_savings_operation_exec_time |-> 17500,
     transfer_operation_exec_time |-> 9600,
     transfer_to_savings_operation_exec_time |-> 6400,
     transfer_to_vesting_operation_exec_time |-> 44400,
     vote_operation_exec_time |-> 26500,
     withdraw_vesting_operation_exec_time |-> 10400,
     witness_set_properties_operation_exec_time |-> 9500,
     witness_update_operation_exec_time |-> 9500]

(***************************************************************************)
(* CountOperationVisitor.  The visitor is a record of its four counters; a *)
(* visit returns Ok(visitor) or the exception it raised.                   *)
(***************************************************************************)
CountOperationVisitor ==
    [market_op_count |-> 0,
     new_account_op_count |-> 0,
     state_bytes_count |-> 0,
     execution_time_count |-> 0]

\* op[k] for each k of keys: a missing key is a KeyError
HasKeys(op, keys) == keys \subseteq DOMAIN op

\* len(s.encode("utf8")) of a string held as its sequence of code points; a
\* lone surrogate (U+D800..U+DFFF) cannot be encoded
RECURSIVE Utf8Len(_)
Utf8Len(s) ==
    IF s = <<>> THEN Ok(0)
    ELSE IF Head(s) \in 55296..57343 THEN Raise("UnicodeEncodeError")
    ELSE LET rest == Utf8Len(Tail(s))
         IN  IF rest.err # "none" THEN rest
             ELSE Ok((IF Head(s) < 128 THEN 1
                      ELSE IF Head(s) < 2048 THEN 2
                      ELSE IF Head(s) < 65536 THEN 3
                      ELSE 4) + rest.val)

\* self.state_bytes_count += n
AddStateBytes(vtor, n) == [vtor EXCEPT !.state_bytes_count = @ + n]

\* self.market_op_count += 1
AddMarketOp(vtor) == [vtor EXCEPT !.market_op_count = @ + 1]

\* self.execution_time_count += self.exec_info.<field>: exec_info is an
\* object whose attributes are the keys of the table, so a field the table
\* lacks is an AttributeError
AddExecTime(vtor, field) ==
    IF field \in DOMAIN exec_info
    THEN Ok([vtor EXCEPT !.execution_time_count = @ + exec_info[field]])
    ELSE Raise("AttributeError")

AuthorityKeys == {"account_auths", "key_auths"}

get_authority_byte_count(auth) ==
      size_info.authority_base_size
    + size_info.authority_account_member_size * Len(auth.account_auths)
    + size_info.authority_key_member_size * Len(auth.key_auths)

\* the three authorities of an account-creating operation are readable
HasAuthorities(op) ==
    /\ HasKeys(op, {"owner", "active", "posting"})
    /\ HasKeys(op.owner, AuthorityKeys)
    /\ HasKeys(op.active, AuthorityKeys)
    /\ HasKeys(op.posting, AuthorityKeys)

RECURSIVE Visit(_, _, _)

RECURSIVE VisitAll(_, _)

visit_account_create_operation(vtor, op) ==
    IF ~HasAuthorities(op) THEN Raise("KeyError")
    ELSE AddExecTime(
           AddStateBytes(vtor,
                 size_info.account_object_base_size
               + size_info.account_authority_object_base_size
               + get_authority_byte_count(op.owner)
               + get_authority_byte_count(op.active)
               + get_authority_byte_count(op.posting)),
           "account_create_operation_exec_time")

visit_account_create_with_delegation_operation(vtor, op) ==
    IF ~HasAuthorities(op) THEN Raise("KeyError")
    ELSE AddExecTime(
           AddStateBytes(vtor,
                 size_info.account_object_base_size
               + size_info.account_authority_object_base_size
               + get_authority_byte_count(op.owner)
               + get_authority_byte_count(op.active)
               + get_authority_byte_count(op.posting)
               + size_info.vesting_delegation_object_base_size),
           "account_create_with_delegation_operation_exec_time")

visit_account_witness_vote_operation(vtor, op) ==
    AddExecTime(AddStateBytes(vtor, size_info.witness_vote_object_base_size),
                "account_witness_vote_operation_exec_time")

visit_comment_operation(vtor, op) ==
    IF ~HasKeys(op, {"permlink"}) THEN Raise("KeyError")
    ELSE LET permlink == Utf8Len(op.permlink)
         IN  IF permlink.err # "none" THEN permlink
             ELSE IF ~HasKeys(op, {"parent_permlink"}) THEN Raise("KeyError")
             ELSE LET parent_permlink == Utf8Len(op.parent_permlink)
                  IN  IF parent_permlink.err # "none" THEN parent_permlink
                      ELSE AddExecTime(
                             AddStateBytes(vtor,
                                   size_info.comment_object_base_size
                                 + size_info.comment_object_permlink_char_size
                                     * permlink.val
                                 + size_info.comment_object_parent_permlink_char_size
                                     * parent_permlink.val),
                             "comment_operation_exec_time")

visit_comment_payout_beneficiaries(vtor, bens) ==
    IF ~HasKeys(bens, {"beneficiaries"}) THEN Raise("KeyError")
    ELSE Ok(AddStateBytes(vtor,
              size_info.comment_object_beneficiaries_member_size * Len(bens.beneficiaries)))

\* every extension is dispatched on its type like an operation
visit_comment_options_operation(vtor, op) ==
    IF ~HasKeys(op, {"extensions"}) THEN Raise("KeyError")
    ELSE LET r == VisitAll(vtor, op.extensions)
         IN  IF r.err # "none" THEN r
             ELSE AddExecTime(r.val, "comment_options_operation_exec_time")

visit_convert_operation(vtor, op) ==
    AddExecTime(AddStateBytes(vtor, size_info.convert_request_object_base_size),
                "convert_operation_exec_time")

visit_create_claimed_account_operation(vtor, op) ==
    IF ~HasAuthorities(op) THEN Raise("KeyError")
    ELSE AddExecTime(
           AddStateBytes(vtor,
                 size_info.account_object_base_size
               + size_info.account_authority_object_base_size
               + get_authority_byte_count(op.owner)
               + get_authority_byte_count(op.active)
               + get_authority_byte_count(op.posting)),
           "create_claimed_account_operation_exec_time")

visit_decline_voting_rights_operation(vtor, op) ==
    AddExecTime(AddStateBytes(vtor, size_info.decline_voting_rights_request_object_base_size),
                "decline_voting_rights_operation_exec_time")

visit_delegate_vesting_shares_operation(vtor, op) ==
    AddExecTime(AddStateBytes(vtor, Max(size_info.vesting_delegation_object_base_size,
                                  size_info.vesting_delegation_expiration_object_base_size)),
                "delegate_vesting_shares_operation_exec_time")

visit_escrow_transfer_operation(vtor, op) ==
    AddExecTime(AddStateBytes(vtor, size_info.escrow_object_base_size),
                "escrow_transfer_operation_exec_time")

visit_limit_order_create_operation(vtor, op) ==
    IF ~HasKeys(op, {"fill_or_kill"}) THEN Raise("KeyError")
    ELSE LET v1 == AddStateBytes(vtor, IF op.fill_or_kill THEN 0
                                       ELSE size_info.limit_order_object_base_size)
             r  == AddExecTime(v1, "limit_order_create_operation_exec_time")
         IN  IF r.err # "none" THEN r ELSE Ok(AddMarketOp(r.val))

visit_limit_order_create2_operation(vtor, op) ==
    IF ~HasKeys(op, {"fill_or_kill"}) THEN Raise("KeyError")
    ELSE LET v1 == AddStateBytes(vtor, IF op.fill_or_kill THEN 0
                                       ELSE size_info.limit_order_object_base_size)
             r  == AddExecTime(v1, "limit_order_create2_operation_exec_time")
         IN  IF r.err # "none" THEN r ELSE Ok(AddMarketOp(r.val))

visit_request_account_recovery_operation(vtor, op) ==
    AddExecTime(AddStateBytes(vtor, size_info.account_recovery_request_object_base_size),
                "request_account_recovery_operation_exec_time")

visit_set_withdraw_vesting_route_operation(vtor, op) ==
    AddExecTime(AddStateBytes(vtor, size_info.withdraw_vesting_route_object_base_size),
                "set_withdraw_vesting_route_operation_exec_time")

visit_vote_operation(vtor, op) ==
    AddExecTime(AddStateBytes(vtor, size_info.comment_vote_object_base_size),
                "vote_operation_exec_time")

visit_witness_update_operation(vtor, op) ==
    IF ~HasKeys(op, {"url"}) THEN Raise("KeyError")
    ELSE LET url == Utf8Len(op.url)
         IN  IF url.err # "none" THEN url
             ELSE AddExecTime(
                    AddStateBytes(vtor,
                          size_info.witness_object_base_size
                        + size_info.witness_object_url_char_size * url.val),
                    "witness_update_operation_exec_time")

visit_transfer_operation(vtor, op) ==
    LET r == AddExecTime(vtor, "transfer_operation_exec_time")
    IN  IF r.err # "none" THEN r ELSE Ok(AddMarketOp(r.val))

visit_transfer_to_vesting_operation(vtor, op) ==
    LET r == AddExecTime(vtor, "transfer_to_vesting_operation_exec_time")
    IN  IF r.err # "none" THEN r ELSE Ok(AddMarketOp(r.val))

visit_transfer_to_savings_operation(vtor, op) ==
    AddExecTime(vtor, "transfer_to_savings_operation_exec_time")

visit_transfer_from_savings_operation(vtor, op) ==
    AddExecTime(AddStateBytes(vtor, size_info.savings_withdraw_object_byte_size),
                "transfer_from_savings_operation_exec_time")

visit_claim_reward_balance_operation(vtor, op) ==
    AddExecTime(vtor, "claim_reward_balance_operation_exec_time")

visit_withdraw_vesting_operation(vtor, op) ==
    AddExecTime(vtor, "withdraw_vesting_operation_exec_time")

visit_account_update_operation(vtor, op) ==
    AddExecTime(vtor, "account_update_operation_exec_time")

visit_account_witness_proxy_operation(vtor, op) ==
    AddExecTime(vtor, "account_witness_proxy_operation_exec_time")

visit_cancel_transfer_from_savings_operation(vtor, op) ==
    AddExecTime(vtor, "cancel_transfer_from_savings_operation_exec_time")

visit_change_recovery_account_operation(vtor, op) ==
    AddExecTime(vtor, "change_recovery_account_operation_exec_time")

visit_claim_account_operation(vtor, op) ==
    LET r == AddExecTime(vtor, "claim_account_operation_exec_time")
    IN  IF r.err # "none" THEN r
        ELSE IF ~(HasKeys(op, {"fee"}) /\ HasKeys(op.fee, {"amount"})) THEN Raise("KeyError")
        ELSE IF op.fee.amount = 0
             THEN Ok([r.val EXCEPT !.new_account_op_count = @ + 1])
             ELSE r

visit_custom_operation(vtor, op) ==
    AddExecTime(vtor, "custom_operation_exec_time")

visit_custom_json_operation(vtor, op) ==
    AddExecTime(vtor, "custom_json_operation_exec_time")

visit_custom_binary_operation(vtor, op) ==
    AddExecTime(vtor, "custom_binary_operation_exec_time")

visit_delete_comment_operation(vtor, op) ==
    AddExecTime(vtor, "delete_comment_operation_exec_time")

visit_escrow_approve_operation(vtor, op) ==
    AddExecTime(vtor, "escrow_approve_operation_exec_time")

visit_escrow_dispute_operation(vtor, op) ==
    AddExecTime(vtor, "escrow_dispute_operation_exec_time")

visit_escrow_release_operation(vtor, op) ==
    AddExecTime(vtor, "escrow_release_operation_exec_time")

visit_feed_publish_operation(vtor, op) ==
    AddExecTime(vtor, "feed_publish_operation_exec_time")

visit_limit_order_cancel_operation(vtor, op) ==
    AddExecTime(vtor, "limit_order_cancel_operation_exec_time")

visit_witness_set_properties_operation(vtor, op) ==
    AddExecTime(vtor, "witness_set_properties_operation_exec_time")

visit_claim_reward_balance2_operation(vtor, op) ==
    AddExecTime(vtor, "claim_reward_balance2_operation_exec_time")

visit_smt_setup_operation(vtor, op) ==
    AddExecTime(vtor, "smt_setup_operation_exec_time")

visit_smt_cap_reveal_operation(vtor, op) ==
    AddExecTime(vtor, "smt_cap_reveal_operation_exec_time")

visit_smt_refund_operation(vtor, op) ==
    AddExecTime(vtor, "smt_refund_operation_exec_time")

visit_smt_setup_emissions_operation(vtor, op) ==
    AddExecTime(vtor, "smt_setup_emissions_operation_exec_time")

visit_smt_set_setup_parameters_operation(vtor, op) ==
    AddExecTime(vtor, "smt_set_setup_parameters_operation_exec_time")

visit_smt_set_runtime_parameters_operation(vtor, op) ==
    AddExecTime(vtor, "smt_set_runtime_parameters_operation_exec_time")

visit_smt_create_operation(vtor, op) ==
    AddExecTime(vtor, "smt_create_operation_exec_time")

visit_allowed_vote_assets(vtor, op) == Ok(vtor)

visit_recover_account_operation(vtor, op) == Ok(vtor)

visit_pow_operation(vtor, op) == Ok(vtor)

visit_pow2_operation(vtor, op) == Ok(vtor)

visit_report_over_production_operation(vtor, op) == Ok(vtor)

visit_reset_account_operation(vtor, op) == Ok(vtor)

visit_set_reset_account_operation(vtor, op) == Ok(vtor)

visit_fill_convert_request_operation(vtor, op) == Ok(vtor)

visit_author_reward_operation(vtor, op) == Ok(vtor)

visit_curation_reward_operation(vtor, op) == Ok(vtor)

visit_comment_reward_operation(vtor, op) == Ok(vtor)

visit_liquidity_reward_operation(vtor, op) == Ok(vtor)

visit_interest_operation(vtor, op) == Ok(vtor)

visit_fill_vesting_withdraw_operation(vtor, op) == Ok(vtor)

visit_fill_order_operation(vtor, op) == Ok(vtor)

visit_shutdown_witness_operation(vtor, op) == Ok(vtor)

visit_fill_transfer_from_savings_operation(vtor, op) == Ok(vtor)

visit_hardfork_operation(vtor, op) == Ok(vtor)

visit_comment_payout_update_operation(vtor, op) == Ok(vtor)

visit_return_vesting_delegation_operation(vtor, op) == Ok(vtor)

visit_comment_benefactor_reward_operation(vtor, op) == Ok(vtor)

visit_producer_reward_operation(vtor, op) == Ok(vtor)

visit_clear_null_account_balance_operation(vtor, op) == Ok(vtor)

\* getattr(vtor, "visit_" + type)(value): a type with no visit_ method is an
\* AttributeError
Visit(vtor, type, value) ==
    CASE type = "account_create_operation" ->
           visit_account_create_operation(vtor, value)
      [] type = "account_create_with_delegation_operation" ->
           visit_account_create_with_delegation_operation(vtor, value)
      [] type = "account_witness_vote_operation" ->
           visit_account_witness_vote_operation(vtor, value)
      [] type = "comment_operation" ->
           visit_comment_operation(vtor, value)
      [] type = "comment_payout_beneficiaries" ->
           visit_comment_payout_beneficiaries(vtor, value)
      [] type = "comment_options_operation" ->
           visit_comment_options_operation(vtor, value)
      [] type = "convert_operation" ->
           visit_convert_operation(vtor, value)
      [] type = "create_claimed_account_operation" ->
           visit_create_claimed_account_operation(vtor, value)
      [] type = "decline_voting_rights_operation" ->
           visit_decline_voting_rights_operation(vtor, value)
      [] type = "delegate_vesting_shares_operation" ->
           visit_delegate_vesting_shares_operation(vtor, value)
      [] type = "escrow_transfer_operation" ->
           visit_escrow_transfer_operation(vtor, value)
      [] type = "limit_order_create_operation" ->
           visit_limit_order_create_operation(vtor, value)
      [] type = "limit_order_create2_operation" ->
           visit_limit_order_create2_operation(vtor, value)
      [] type = "request_account_recovery_operation" ->
           visit_request_account_recovery_operation(vtor, value)
      [] type = "set_withdraw_vesting_route_operation" ->
           visit_set_withdraw_vesting_route_operation(vtor, value)
      [] type = "vote_operation" ->
           visit_vote_operation(vtor, value)
      [] type = "witness_update_operation" ->
           visit_witness_update_operation(vtor, value)
      [] type = "transfer_operation" ->
           visit_transfer_operation(vtor, value)
      [] type = "transfer_to_vesting_operation" ->
           visit_transfer_to_vesting_operation(vtor, value)
      [] type = "transfer_to_savings_operation" ->
           visit_transfer_to_savings_operation(vtor, value)
      [] type = "transfer_from_savings_operation" ->
           visit_transfer_from_savings_operation(vtor, value)
      [] type = "claim_reward_balance_operation" ->
           visit_claim_reward_balance_operation(vtor, value)
      [] type = "withdraw_vesting_operation" ->
           visit_withdraw_vesting_operation(vtor, value)
      [] type = "account_update_operation" ->
           visit_account_update_operation(vtor, value)
      [] type = "account_witness_proxy_operation" ->
           visit_account_witness_proxy_operation(vtor, value)
      [] type = "cancel_transfer_from_savings_operation" ->
           visit_cancel_transfer_from_savings_operation(vtor, value)
      [] type = "change_recovery_account_operation" ->
           visit_change_recovery_account_operation(vtor, value)
      [] type = "claim_account_operation" ->
           visit_claim_account_operation(vtor, value)
      [] type = "custom_operation" ->
           visit_custom_operation(vtor, value)
      [] type = "custom_json_operation" ->
           visit_custom_json_operation(vtor, value)
      [] type = "custom_binary_operation" ->
           visit_custom_binary_operation(vtor, value)
      [] type = "delete_comment_operation" ->
           visit_delete_comment_operation(vtor, value)
      [] type = "escrow_approve_operation" ->
           visit_escrow_approve_operation(vtor, value)
      [] type = "escrow_dispute_operation" ->
           visit_escrow_dispute_operation(vtor, value)
      [] type = "escrow_release_operation" ->
           visit_escrow_release_operation(vtor, value)
      [] type = "feed_publish_operation" ->
           visit_feed_publish_operation(vtor, value)
      [] type = "limit_order_cancel_operation" ->
           visit_limit_order_cancel_operation(vtor, value)
      [] type = "witness_set_properties_operation" ->
           visit_witness_set_properties_operation(vtor, value)
      [] type = "claim_reward_balance2_operation" ->
           visit_claim_reward_balance2_operation(vtor, value)
      [] type = "smt_setup_operation" ->
           visit_smt_setup_operation(vtor, value)
      [] type = "smt_cap_reveal_operation" ->
           visit_smt_cap_reveal_operation(vtor, value)
      [] type = "smt_refund_operation" ->
           visit_smt_refund_operation(vtor, value)
      [] type = "smt_setup_emissions_operation" ->
           visit_smt_setup_emissions_operation(vtor, value)
      [] type = "smt_set_setup_parameters_operation" ->
           visit_smt_set_setup_parameters_operation(vtor, value)
      [] type = "smt_set_runtime_parameters_operation" ->
           visit_smt_set_runtime_parameters_operation(vtor, value)
      [] type = "smt_create_operation" ->
           visit_smt_create_operation(vtor, value)
      [] type = "allowed_vote_assets" ->
           visit_allowed_vote_assets(vtor, value)
      [] type = "recover_account_operation" ->
           visit_recover_account_operation(vtor, value)
      [] type = "pow_operation" ->
           visit_pow_operation(vtor, value)
      [] type = "pow2_operation" ->
           visit_pow2_operation(vtor, value)
      [] type = "report_over_production_operation" ->
           visit_report_over_production_operation(vtor, value)
      [] type = "reset_account_operation" ->
           visit_reset_account_operation(vtor, value)
      [] type = "set_reset_account_operation" ->
           visit_set_reset_account_operation(vtor, value)
      [] type = "fill_convert_request_operation" ->
           visit_fill_convert_request_operation(vtor, value)
      [] type = "author_reward_operation" ->
           visit_author_reward_operation(vtor, value)
      [] type = "curation_reward_operation" ->
           visit_curation_reward_operation(vtor, value)
      [] type = "comment_reward_operation" ->
           visit_comment_reward_operation(vtor, value)
      [] type = "liquidity_reward_operation" ->
           visit_liquidity_reward_operation(vtor, value)
      [] type = "interest_operation" ->
           visit_interest_operation(vtor, value)
      [] type = "fill_vesting_withdraw_operation" ->
           visit_fill_vesting_withdraw_operation(vtor, value)
      [] type = "fill_order_operation" ->
           visit_fill_order_operation(vtor, value)
      [] type = "shutdown_witness_operation" ->
           visit_shutdown_witness_operation(vtor, value)
      [] type = "fill_transfer_from_savings_operation" ->
           visit_fill_transfer_from_savings_operation(vtor, value)
      [] type = "hardfork_operation" ->
           visit_hardfork_operation(vtor, value)
      [] type = "comment_payout_update_operation" ->
           visit_comment_payout_update_operation(vtor, value)
      [] type = "return_vesting_delegation_operation" ->
           visit_return_vesting_delegation_operation(vtor, value)
      [] type = "comment_benefactor_reward_operation" ->
           visit_comment_benefactor_reward_operation(vtor, value)
      [] type = "producer_reward_operation" ->
           visit_producer_reward_operation(vtor, value)
      [] type = "clear_null_account_balance_operation" ->
           visit_clear_null_account_balance_operation(vtor, value)
      [] OTHER -> Raise("AttributeError")

\* variant: the visitor is created inside the loop, once per operation
VisitAll_FreshEachOp(vtor, ops) ==
    IF ops = <<>> THEN Ok(vtor)
    ELSE LET r == Visit(CountOperationVisitor, Head(ops).type, Head(ops).value)
         IN  IF r.err # "none" THEN r ELSE VisitAll(r.val, Tail(ops))

\* for op in ops: getattr(vtor, "visit_" + op["type"])(op["value"])
VisitAll(vtor, ops) ==
    IF ops = <<>> THEN Ok(vtor)
    ELSE LET r == Visit(vtor, Head(ops).type, Head(ops).value)
         IN  IF r.err # "none" THEN r ELSE VisitAll(r.val, Tail(ops))

(***************************************************************************)
(* ResourceCounter.__call__                                                *)
(***************************************************************************)
\* variant: the per-byte term of the transaction object is left out
ResourceCount_NoByteTerm(vtor, tx_size) ==
    [resource_history_bytes  |-> tx_size,
     resource_new_accounts   |-> vtor.new_account_op_count,
     resource_market_bytes   |-> IF vtor.market_op_count > 0 THEN tx_size ELSE 0,
     resource_state_bytes    |->   size_info.transaction_object_base_size
                                 + vtor.state_bytes_count,
     resource_execution_time |-> 0]

\* the per-transaction usage once the visitor has seen every operation
ResourceCount(vtor, tx_size) ==
    [resource_history_bytes  |-> tx_size,
     resource_new_accounts   |-> vtor.new_account_op_count,
     resource_market_bytes   |-> IF vtor.market_op_count > 0 THEN tx_size ELSE 0,
     resource_state_bytes    |->   size_info.transaction_object_base_size
                                 + size_info.transaction_object_byte_size * tx_size
                                 + vtor.state_bytes_count,
     \* the line adding vtor.execution_time_count is commented out
     resource_execution_time |-> 0]

\* a negative tx_size asks for Serializer, a name the file never defines
ResourceCounter(tx, tx_size) ==
    IF tx_size < 0 THEN Raise("NameError")
    ELSE LET r == VisitAll(CountOperationVisitor, tx.operations)
         IN  IF r.err # "none" THEN r
             ELSE Ok([resource_count |-> ResourceCount(r.val, tx_size)])

(***************************************************************************)
(* RCModel over a sample configuration.  RCModel takes its resource_params, *)
(* resource_pool and rc_regen as constructor arguments.  The shipped table  *)
(* and pools exceed the range of the model checker's integers, so the      *)
(* model is built over SampleParams, SamplePool and SampleRegen: the five   *)
(* resources with their shipped resource_unit, the shipped size_info and   *)
(* the new_accounts budget, and small numbers of the same signs for the    *)
(* other budgets, decay parameters, curve coefficients and pools.          *)
(***************************************************************************)
resource_names ==
    <<"resource_history_bytes", "resource_new_accounts", "resource_market_bytes",
      "resource_state_bytes", "resource_execution_time">>

Resources == {resource_names[i] : i \in 1..Len(resource_names)}

ResourceParamsOf(unit, budget, decay, decay_shift, a, b, shift) ==
    [resource_dynamics_params |->
        [resource_unit |-> unit,
         budget_per_time_unit |-> budget,
         decay_params |-> [decay_per_time_unit |-> decay,
                           decay_per_time_unit_denom_shift |-> decay_shift]],
     price_curve_params |-> [coeff_a |-> a, coeff_b |-> b, shift |-> shift]]

SampleParams ==
    [resource_names |-> resource_names,
     resource_params |->
        [resource_history_bytes  |-> ResourceParamsOf(1,     3,   1, 2, 3, 2, 1),
         resource_new_accounts   |-> ResourceParamsOf(10000, 797, 1, 4, 2, 5, 1),
         resource_market_bytes   |-> ResourceParamsOf(10,    5,   1, 1, 1, 3, 0),
         resource_state_bytes    |-> ResourceParamsOf(1,     2,   1, 3, 3, 4, 1),
         resource_execution_time |-> ResourceParamsOf(1,     1,   1, 2, 3, 2, 1)],
     size_info |-> [resource_state_bytes |-> size_info,
                    resource_execution_time |-> exec_info]]

SamplePool ==
    [resource_history_bytes  |-> 8,
     resource_new_accounts   |-> 10000,
     resource_market_bytes   |-> 40,
     resource_state_bytes    |-> 16,
     resource_execution_time |-> 4]

\* usage["resource_count"][resource_name] *= resource_unit, for every resource
ScaledUsage(usage) ==
    [resource_count |->
        [r \in Resources |->
            usage.resource_count[r]
              * SampleParams.resource_params[r].resource_dynamics_params.resource_unit]]

\* cost[resource_name] of the scaled usage, for every resource
CostOf(pool, scaled, regen) ==
    [r \in Resources |->
        compute_rc_cost_of_resource(SampleParams.resource_params[r].price_curve_params,
                                    pool[r], scaled.resource_count[r], regen)]

\* lines 341-353: scale the counted usage, price every resource, return both
PriceUsage(pool, regen, counted) ==
    LET usage == ScaledUsage(counted)
        cost  == CostOf(pool, usage, regen)
    IN  IF \E r \in Resources : cost[r].err # "none"
        THEN Raise("ZeroDivisionError")
        ELSE Ok([usage |-> usage, cost |-> [r \in Resources |-> cost[r].val]])

get_transaction_rc_cost(pool, regen, tx, tx_size) ==
    LET u == ResourceCounter(tx, tx_size)
    IN  IF u.err # "none" THEN u ELSE PriceUsage(pool, regen, u.val)

apply_rc_pool_dynamics(pool, count) ==
    LET params(r) == SampleParams.resource_params[r].resource_dynamics_params
        dt        == 1
        budget(r) == params(r).budget_per_time_unit * dt
        usage(r)  == count[r] * params(r).resource_unit
        decay(r)  == rd_compute_pool_decay(params(r).decay_params, pool[r] - usage(r), dt)
    IN  [dt         |-> [r \in Resources |-> dt],
         decay      |-> [r \in Resources |-> decay(r)],
         budget     |-> [r \in Resources |-> budget(r)],
         usage      |-> [r \in Resources |-> usage(r)],
         adjustment |-> <<>>,
         pool       |-> [r \in Resources |-> pool[r]],
         new_pool   |-> [r \in Resources |->
                            pool[r] - decay(r) + budget(r) - usage(r)]]

(***************************************************************************)
(* Calls of the two pure functions on inputs drawn at the start.           *)
(***************************************************************************)
CurveCalls ==
    [op : {"compute_rc_cost_of_resource"},
     curve_params : [coeff_a : -1..MaxCoeff, coeff_b : -1..MaxCoeff, shift : 0..MaxShift],
     current_pool : -MaxPool..MaxPool,
     resource_count : -MaxUsage..MaxUsage,
     rc_regen : -1..MaxRegen]

InitCurve ==
    /\ call \in CurveCalls
    /\ ret = None
    /\ resource_pool = SamplePool

CallComputeRcCostOfResource ==
    /\ call.op = "compute_rc_cost_of_resource"
    /\ ret = None
    /\ ret' = compute_rc_cost_of_resource(call.curve_params, call.current_pool,
                                          call.resource_count, call.rc_regen)
    /\ UNCHANGED <<resource_pool, call>>

NextCurve == CallComputeRcCostOfResource

SpecCurve == InitCurve /\ [][NextCurve]_vars

DecayCalls ==
    [op : {"rd_compute_pool_decay"},
     decay_params : [decay_per_time_unit : -1..MaxDecay,
                     decay_per_time_unit_denom_shift : 0..MaxShift],
     current_pool : -MaxPool..MaxPool,
     dt : 0..MaxDt]

InitDecay ==
    /\ call \in DecayCalls
    /\ ret = None
    /\ resource_pool = SamplePool

CallRdComputePoolDecay ==
    /\ call.op = "rd_compute_pool_decay"
    /\ ret = None
    /\ ret' = Ok(rd_compute_pool_decay(call.decay_params, call.current_pool, call.dt))
    /\ UNCHANGED <<resource_pool, call>>

NextDecay == CallRdComputePoolDecay

SpecDecay == InitDecay /\ [][NextDecay]_vars

(***************************************************************************)
(* The RCModel driven by a caller: cost queries and the block-dynamics      *)
(* step.  Neither writes self.resource_pool: apply_rc_pool_dynamics hands   *)
(* the new balances back in block_info["new_pool"] and nothing in the       *)
(* program builds a model on them, so a model keeps the pool it was         *)
(* constructed with.                                                        *)
(***************************************************************************)
MaxOps    == 2   \* operations per transaction
MaxCount  == 2   \* per-resource count handed to apply_rc_pool_dynamics
SampleRegen == 2 \* RCModel.rc_regen of the sample model

Authority(accounts, keys) == [account_auths |-> accounts, key_auths |-> keys]

SampleOps ==
    { [type |-> "vote_operation",
       value |-> [voter |-> "alice", author |-> "bob", weight |-> 10000]],
      [type |-> "transfer_operation",
       value |-> [from |-> "alice", to |-> "bob"]],
      \* permlink "p" followed by U+00E9, parent_permlink "p"
      [type |-> "comment_operation",
       value |-> [permlink |-> <<112, 233>>, parent_permlink |-> <<112>>]],
      [type |-> "comment_operation",
       value |-> [parent_permlink |-> <<112>>]],
      \* permlink "p" followed by the lone surrogate U+DC00, no parent_permlink
      [type |-> "comment_operation",
       value |-> [permlink |-> <<112, 56320>>]],
      \* parent_permlink the lone surrogate U+D800
      [type |-> "comment_operation",
       value |-> [permlink |-> <<112>>, parent_permlink |-> <<55296>>]],
      [type |-> "comment_options_operation",
       value |-> [extensions |->
                    << [type |-> "comment_payout_beneficiaries",
                        value |-> [beneficiaries |-> <<"coolui1997">>]] >>]],
      \* extensions carrying the tag of an operation
      [type |-> "comment_options_operation",
       value |-> [extensions |->
                    << [type |-> "transfer_operation",
                        value |-> [from |-> "alice", to |-> "bob"]] >>]],
      [type |-> "comment_options_operation",
       value |-> [extensions |->
                    << [type |-> "claim_account_operation",
                        value |-> [fee |-> [amount |-> 0]]] >>]],
      [type |-> "claim_account_operation", value |-> [fee |-> [amount |-> 0]]],
      [type |-> "claim_account_operation", value |-> [fee |-> [amount |-> 3]]],
      [type |-> "limit_order_create_operation", value |-> [fill_or_kill |-> FALSE]],
      [type |-> "limit_order_create2_operation", value |-> [fill_or_kill |-> TRUE]],
      [type |-> "transfer_to_vesting_operation",
       value |-> [from |-> "alice", to |-> "alice"]],
      [type |-> "create_claimed_account_operation",
       value |-> [owner   |-> Authority(<<>>, <<"k1">>),
                  active  |-> Authority(<<>>, <<"k1">>),
                  posting |-> Authority(<<"a", "b">>, <<>>)]],
      [type |-> "account_create_operation",
       value |-> [owner   |-> Authority(<<"a">>, <<"k1", "k2">>),
                  active  |-> Authority(<<>>, <<"k1">>),
                  posting |-> Authority(<<>>, <<"k1">>)]],
      [type |-> "custom_json_operation", value |-> [id |-> "follow"]],
      [type |-> "smt_create_operation", value |-> [precision |-> 3]],
      [type |-> "hardfork_operation", value |-> [hardfork_id |-> 20]],
      [type |-> "frobnicate_operation", value |-> [x |-> 1]],
      [type |-> "allowed_vote_assets", value |-> [votable_assets |-> <<>>]],
      [type |-> "comment_payout_beneficiaries",
       value |-> [beneficiaries |-> <<"coolui1997", "bob">>]] }

SeqsUpTo(S, n) == UNION {[1..k -> S] : k \in 0..n}

Transactions == [operations : SeqsUpTo(SampleOps, MaxOps)]

\* the operations of the transactions priced by the RCModel: a plain one, a
\* market one, a free account claim, an unknown tag and an extension tag
ModelOps ==
    {op \in SampleOps :
        \/ op.type \in {"vote_operation", "transfer_operation", "frobnicate_operation",
                        "comment_payout_beneficiaries"}
        \/ op = [type |-> "claim_account_operation", value |-> [fee |-> [amount |-> 0]]]}

ModelTransactions == [operations : SeqsUpTo(ModelOps, MaxOps)]

\* -1 is the default tx_size
TxSizes == {-1, 0, 133}

\* usage vectors that charge one resource
CountVectors ==
    {[r \in Resources |-> IF r = x THEN c ELSE 0] : x \in Resources, c \in 0..MaxCount}

Idle == [op |-> "idle"]

\* pools a model is constructed with: the sample pool, and the sample pool
\* with one resource nearly or wholly drained
SamplePools ==
    {SamplePool}
      \cup {[SamplePool EXCEPT ![r] = p] : r \in Resources, p \in 0..MaxPool}

Init ==
    /\ resource_pool \in SamplePools
    /\ call = Idle
    /\ ret = None

\* variant: the query charges the transaction's usage to the pool
GetTransactionRcCost_Charging(tx, tx_size) ==
    /\ call = Idle
    /\ call' = [op |-> "get_transaction_rc_cost", tx |-> tx, tx_size |-> tx_size]
    /\ ret' = get_transaction_rc_cost(resource_pool, SampleRegen, tx, tx_size)
    /\ resource_pool' =
          IF ret'.err = "none"
          THEN [r \in Resources |-> resource_pool[r] - ret'.val.usage.resource_count[r]]
          ELSE resource_pool

GetTransactionRcCost(tx, tx_size) ==
    /\ call = Idle
    /\ call' = [op |-> "get_transaction_rc_cost", tx |-> tx, tx_size |-> tx_size]
    /\ ret' = get_transaction_rc_cost(resource_pool, SampleRegen, tx, tx_size)
    /\ UNCHANGED resource_pool

ApplyRcPoolDynamics(count) ==
    /\ call = Idle
    /\ call' = [op |-> "apply_rc_pool_dynamics", count |-> count]
    /\ ret' = Ok(apply_rc_pool_dynamics(resource_pool, count))
    /\ UNCHANGED resource_pool

\* the caller is done with the result of a call
DropResult ==
    /\ call.op \in {"get_transaction_rc_cost", "apply_rc_pool_dynamics", "count_resources"}
    /\ call' = Idle
    /\ ret' = None
    /\ UNCHANGED resource_pool

Next ==
    \/ \E tx \in ModelTransactions, tx_size \in TxSizes : GetTransactionRcCost(tx, tx_size)
    \/ \E count \in CountVectors : ApplyRcPoolDynamics(count)
    \/ DropResult

Spec == Init /\ [][Next]_vars

\* the module-level count_resources = ResourceCounter(resource_params)
CountResources(tx, tx_size) ==
    /\ call = Idle
    /\ call' = [op |-> "count_resources", tx |-> tx, tx_size |-> tx_size]
    /\ ret' = ResourceCounter(tx, tx_size)
    /\ UNCHANGED resource_pool

\* the counter has no pool of its own; the module's model keeps its pool
InitCounter ==
    /\ resource_pool = SamplePool
    /\ call = Idle
    /\ ret = None

NextCounter ==
    \/ \E tx \in Transactions, tx_size \in TxSizes : CountResources(tx, tx_size)
    \/ DropResult

SpecCounter == InitCounter /\ [][NextCounter]_vars

(***************************************************************************)
(* Cost queries in flight at the same time against one RCModel.  Each      *)
(* query is a call of get_transaction_rc_cost that advances one operation  *)
(* at a time; call[q] holds its arguments and ret[q] its frame: where it   *)
(* is, its visitor and, once done, what it returned.                       *)
(***************************************************************************)
NumQueries == 2  \* queries in flight

Queries == 1..NumQueries

ParallelOps ==
    {op \in SampleOps : op.type \in {"vote_operation", "frobnicate_operation"}}

ParallelCalls ==
    [op : {"get_transaction_rc_cost"},
     tx : [operations : SeqsUpTo(ParallelOps, MaxOps)],
     tx_size : {133}]

NotStarted == [pc |-> "new"]

InitParallel ==
    /\ resource_pool = SamplePool
    /\ call \in [Queries -> ParallelCalls]
    /\ ret = [q \in Queries |-> NotStarted]

\* variant: the visitor is kept between calls, so a call starts from the
\* counters another call has reached
StartVisitor_Carried(q, frames) ==
    IF \E p \in Queries : p # q /\ frames[p].pc # "new" /\ "vtor" \in DOMAIN frames[p]
    THEN frames[CHOOSE p \in Queries :
                   p # q /\ frames[p].pc # "new" /\ "vtor" \in DOMAIN frames[p]].vtor
    ELSE CountOperationVisitor

\* vtor = CountOperationVisitor(...): every call makes its own visitor
StartVisitor(q, frames) == CountOperationVisitor

\* the call up to the creation of its visitor
QueryStart(q) ==
    /\ ret[q].pc = "new"
    /\ ret' = [ret EXCEPT ![q] =
                 IF call[q].tx_size < 0
                 THEN [pc |-> "done", result |-> Raise("NameError")]
                 ELSE [pc |-> "visiting", pos |-> 0, vtor |-> StartVisitor(q, ret)]]
    /\ UNCHANGED <<resource_pool, call>>

\* one iteration of the loop over the transaction's operations
QueryVisit(q) ==
    /\ ret[q].pc = "visiting"
    /\ ret[q].pos < Len(call[q].tx.operations)
    /\ LET op == call[q].tx.operations[ret[q].pos + 1]
           r  == Visit(ret[q].vtor, op.type, op.value)
       IN  ret' = [ret EXCEPT ![q] =
                     IF r.err # "none"
                     THEN [pc |-> "done", vtor |-> ret[q].vtor, result |-> r]
                     ELSE [pc |-> "visiting", pos |-> ret[q].pos + 1, vtor |-> r.val]]
    /\ UNCHANGED <<resource_pool, call>>

\* the rest of the call: the usage is built, scaled and priced
QueryFinish(q) ==
    /\ ret[q].pc = "visiting"
    /\ ret[q].pos = Len(call[q].tx.operations)
    /\ ret' = [ret EXCEPT ![q] =
                 [pc |-> "done", vtor |-> ret[q].vtor,
                  result |-> PriceUsage(resource_pool, SampleRegen,
                               [resource_count |->
                                   ResourceCount(ret[q].vtor, call[q].tx_size)])]]
    /\ UNCHANGED <<resource_pool, call>>

NextParallel ==
    \E q \in Queries : QueryStart(q) \/ QueryVisit(q) \/ QueryFinish(q)

SpecParallel == InitParallel /\ [][NextParallel]_vars

(***************************************************************************)
(* Properties of compute_rc_cost_of_resource (under SpecCurve).            *)
(***************************************************************************)
CurveReturned == call.op = "compute_rc_cost_of_resource" /\ ret # None

\* the denominator the curve divides by
Denom(curve_params, current_pool) == curve_params.coeff_b + Max(current_pool, 0)

\* C1: for positive usage, non-negative regen rate and coeff_a and a positive
\* denominator coeff_b + max(pool, 0), the cost is at least 1, whatever the
\* pool (a negative pool counts as 0).
C1_PositiveCost ==
    ( /\ CurveReturned
      /\ call.resource_count > 0
      /\ call.rc_regen >= 0
      /\ call.curve_params.coeff_a >= 0
      /\ Denom(call.curve_params, call.current_pool) > 0 )
    => (ret.err = "none" /\ ret.val >= 1)

C1_Witness ==
    /\ CurveReturned
    /\ call.resource_count > 0
    /\ call.rc_regen > 0
    /\ call.curve_params.coeff_a > 0
    /\ call.current_pool < 0
    /\ Denom(call.curve_params, call.current_pool) > 0
    /\ ret.err = "none"
    /\ ret.val >= 1

\* C2: the cost is an odd function of usage: it is 0 for usage 0, and for
\* u > 0 the cost of -u is minus the cost of u (a raised error is raised for
\* both signs).
C2_OddFunction ==
    CurveReturned =>
       /\ call.resource_count = 0 => ret = Ok(0)
       /\ call.resource_count > 0 =>
            compute_rc_cost_of_resource(call.curve_params, call.current_pool,
                                        -call.resource_count, call.rc_regen)
              = Negate(ret)

C2_Witness ==
    /\ CurveReturned
    /\ call.resource_count > 0
    /\ ret.err = "none"
    /\ ret.val > 1
    /\ compute_rc_cost_of_resource(call.curve_params, call.current_pool,
                                   -call.resource_count, call.rc_regen)
         = Ok(-ret.val)

\* the cost at every pool p2 >= the call's pool is at most the call's cost
NoDearerAtLargerPools ==
    /\ ret.err = "none"
    /\ \A p2 \in -MaxPool..MaxPool :
          p2 >= call.current_pool =>
             LET c2 == compute_rc_cost_of_resource(call.curve_params, p2,
                                                   call.resource_count, call.rc_regen)
             IN  c2.err = "none" /\ c2.val <= ret.val

\* C3 as stated: for fixed curve, regen rate and positive usage, with a
\* positive denominator, the cost is non-increasing in the pool.
C3_MonotoneAsStated ==
    ( /\ CurveReturned
      /\ call.resource_count > 0
      /\ Denom(call.curve_params, call.current_pool) > 0 )
    => NoDearerAtLargerPools

\* C3 amended: for fixed curve with non-negative coeff_a, non-negative regen
\* rate and positive usage, with a positive denominator, the cost is
\* non-increasing in the pool.
C3_MonotoneNonNegative ==
    ( /\ CurveReturned
      /\ call.resource_count > 0
      /\ call.rc_regen >= 0
      /\ call.curve_params.coeff_a >= 0
      /\ Denom(call.curve_params, call.current_pool) > 0 )
    => NoDearerAtLargerPools

C3_Witness ==
    /\ CurveReturned
    /\ call.resource_count > 0
    /\ call.rc_regen > 0
    /\ call.curve_params.coeff_a > 0
    /\ Denom(call.curve_params, call.current_pool) > 0
    /\ ret.err = "none"
    /\ \E p2 \in -MaxPool..MaxPool :
          /\ p2 > call.current_pool
          /\ LET c2 == compute_rc_cost_of_resource(call.curve_params, p2,
                                                   call.resource_count, call.rc_regen)
             IN  c2.err = "none" /\ c2.val < ret.val

\* C9: whenever the denominator coeff_b + max(pool, 0) is <= 0 and the usage
\* is non-zero, the call reports an error instead of returning a cost.
C9_DegenerateCurveReported ==
    ( /\ CurveReturned
      /\ call.resource_count # 0
      /\ Denom(call.curve_params, call.current_pool) <= 0 )
    => ret.err # "none"

(***************************************************************************)
(* Properties of rd_compute_pool_decay (under SpecDecay).                  *)
(***************************************************************************)
DecayReturned == call.op = "rd_compute_pool_decay" /\ ret # None

\* C4 as stated: for every pool, dt >= 0 and decay parameters the result is
\* between 0 and abs(pool).
C4_DecayRangeAsStated ==
    DecayReturned => (0 <= ret.val /\ ret.val <= Abs(call.current_pool))

\* C4 amended: for every pool, dt >= 0 and decay parameters with a
\* non-negative decay_per_time_unit, the result lies between 0 and the pool:
\* 0 <= result <= pool for pool >= 0 and pool <= result <= 0 for pool < 0.
C4_DecayRangeSigned ==
    (DecayReturned /\ call.decay_params.decay_per_time_unit >= 0) =>
       /\ call.current_pool >= 0 => (0 <= ret.val /\ ret.val <= call.current_pool)
       /\ call.current_pool < 0  => (call.current_pool <= ret.val /\ ret.val <= 0)

C4_Witness ==
    /\ DecayReturned
    /\ call.decay_params.decay_per_time_unit > 0
    /\ call.current_pool < 0
    /\ ret.val < 0
    /\ ret.val >= call.current_pool

\* C5: for a non-negative pool and dt >= 0 the result is <= pool, and it is
\* exactly 0 when decay_per_time_unit is 0.
C5_DecayAtMostPool ==
    (DecayReturned /\ call.current_pool >= 0) =>
       /\ ret.val <= call.current_pool
       /\ call.decay_params.decay_per_time_unit = 0 => ret.val = 0

\* the clamp is what bounds the result here
C5_Witness ==
    /\ DecayReturned
    /\ call.current_pool > 0
    /\ ShiftRight(call.decay_params.decay_per_time_unit * call.dt * call.current_pool,
                  call.decay_params.decay_per_time_unit_denom_shift) > call.current_pool
    /\ ret.val = call.current_pool

(***************************************************************************)
(* Properties of the RCModel (under Spec) and of the resource counter      *)
(* (under SpecCounter).                                                    *)
(***************************************************************************)
\* the operation variants: every type with a visit_<type> method whose name
\* is that of an operation (handled, ignored or virtual)
OperationTypes ==
    {"account_create_operation", "account_create_with_delegation_operation",
     "account_witness_vote_operation", "comment_operation",
     "comment_options_operation", "convert_operation",
     "create_claimed_account_operation", "decline_voting_rights_operation",
     "delegate_vesting_shares_operation", "escrow_transfer_operation",
     "limit_order_create_operation", "limit_order_create2_operation",
     "request_account_recovery_operation",
     "set_withdraw_vesting_route_operation", "vote_operation",
     "witness_update_operation", "transfer_operation",
     "transfer_to_vesting_operation", "transfer_to_savings_operation",
     "transfer_from_savings_operation", "claim_reward_balance_operation",
     "withdraw_vesting_operation", "account_update_operation",
     "account_witness_proxy_operation",
     "cancel_transfer_from_savings_operation",
     "change_recovery_account_operation", "claim_account_operation",
     "custom_operation", "custom_json_operation", "custom_binary_operation",
     "delete_comment_operation", "escrow_approve_operation",
     "escrow_dispute_operation", "escrow_release_operation",
     "feed_publish_operation", "limit_order_cancel_operation",
     "witness_set_properties_operation", "claim_reward_balance2_operation",
     "smt_setup_operation", "smt_cap_reveal_operation",
     "smt_refund_operation", "smt_setup_emissions_operation",
     "smt_set_setup_parameters_operation",
     "smt_set_runtime_parameters_operation", "smt_create_operation",
     "recover_account_operation", "pow_operation", "pow2_operation",
     "report_over_production_operation", "reset_account_operation",
     "set_reset_account_operation", "fill_convert_request_operation",
     "author_reward_operation", "curation_reward_operation",
     "comment_reward_operation", "liquidity_reward_operation",
     "interest_operation", "fill_vesting_withdraw_operation",
     "fill_order_operation", "shutdown_witness_operation",
     "fill_transfer_from_savings_operation", "hardfork_operation",
     "comment_payout_update_operation",
     "return_vesting_delegation_operation",
     "comment_benefactor_reward_operation", "producer_reward_operation",
     "clear_null_account_balance_operation" }

\* C6: on a model whose pools are all non-negative, a block-dynamics step
\* given a non-negative usage vector returns a new_pool that is >= 0 for
\* every resource (the first step of any chain of such steps).
C6_PoolsNonNegative ==
    call.op = "apply_rc_pool_dynamics" =>
        \A r \in Resources : ret.val.new_pool[r] >= 0

\* C7: a step that makes a cost query, whether the query returns or raises,
\* leaves every resource's pool balance as it was, and so does handing the
\* result back.
C7_QueryKeepsPool ==
    [][ ( \/ (call.op = "idle" /\ call'.op = "get_transaction_rc_cost")
          \/ (call.op = "get_transaction_rc_cost" /\ call'.op = "idle") )
        => resource_pool' = resource_pool ]_vars

\* a query that returned a cost above the minimum, on a model constructed
\* with a drained pool
C7_Witness ==
    /\ call.op = "get_transaction_rc_cost"
    /\ ret.err = "none"
    /\ resource_pool # SamplePool
    /\ \E r \in Resources : ret.val.cost[r] > 1

HasUnknownOperation(tx) ==
    \E i \in 1..Len(tx.operations) : tx.operations[i].type \notin OperationTypes

IsOperation(op) == op.type \in OperationTypes

\* C8: a query on a transaction that holds an operation whose type is not an
\* operation variant fails with the unknown-operation error (here for
\* transactions whose other operations are all visited without error).
C8_UnknownOperationFails ==
    ( /\ call.op = "get_transaction_rc_cost"
      /\ call.tx_size >= 0
      /\ HasUnknownOperation(call.tx)
      /\ VisitAll(CountOperationVisitor,
                  SelectSeq(call.tx.operations, IsOperation)).err = "none" )
    => ret.err = "AttributeError"

\* C10: the returned execution_time is the execution-time count the visitor
\* accumulated over the transaction's operations.
C10_ExecutionTimeReturned ==
    (call.op = "count_resources" /\ ret.err = "none") =>
        ret.val.resource_count.resource_execution_time
          = VisitAll(CountOperationVisitor, call.tx.operations).val.execution_time_count

CounterReturned == call.op = "count_resources" /\ ret.err = "none"

MarketOperationTypes ==
    {"transfer_operation", "transfer_to_vesting_operation",
     "limit_order_create_operation", "limit_order_create2_operation"}

\* the positions of the transaction's operations whose type is in a set
OpsOfType(tx, types) ==
    {i \in 1..Len(tx.operations) : tx.operations[i].type \in types}

\* C11: market_bytes is the supplied length L when the transaction holds at
\* least one market operation (transfer, transfer-to-vesting, limit order
\* create or create2) and 0 otherwise, however many market operations it
\* holds.
C11_MarketBytes ==
    CounterReturned =>
        ret.val.resource_count.resource_market_bytes
          = IF OpsOfType(call.tx, MarketOperationTypes) # {} THEN call.tx_size ELSE 0

\* what one operation adds to state_bytes_count when visited on its own
StateBytesOf(op) == Visit(CountOperationVisitor, op.type, op.value).val.state_bytes_count

RECURSIVE SumStateBytes(_)
SumStateBytes(ops) ==
    IF ops = <<>> THEN 0 ELSE StateBytesOf(Head(ops)) + SumStateBytes(Tail(ops))

IsSingleVote(tx) ==
    Len(tx.operations) = 1 /\ tx.operations[1].type = "vote_operation"

\* C12: history_bytes is the supplied length L and state_bytes is
\* transaction_object_base_size + transaction_object_byte_size * L + the sum
\* of the operations' state-byte contributions; a single vote with L = 133
\* gives history_bytes 133, market_bytes 0, new_accounts 0 and state_bytes
\* 6090 + 174 * 133 + 470000 = 499232.
C12_HistoryAndStateBytes ==
    CounterReturned =>
        LET rc == ret.val.resource_count
        IN  /\ rc.resource_history_bytes = call.tx_size
            /\ rc.resource_state_bytes
                 =   size_info.transaction_object_base_size
                   + size_info.transaction_object_byte_size * call.tx_size
                   + SumStateBytes(call.tx.operations)
            /\ (IsSingleVote(call.tx) /\ call.tx_size = 133) =>
                  /\ rc.resource_history_bytes = 133
                  /\ rc.resource_market_bytes = 0
                  /\ rc.resource_new_accounts = 0
                  /\ rc.resource_state_bytes
                       =   size_info.transaction_object_base_size
                         + size_info.transaction_object_byte_size * 133
                         + size_info.comment_vote_object_base_size
                  /\ rc.resource_state_bytes = 499232

C12_Witness ==
    /\ CounterReturned
    /\ IsSingleVote(call.tx)
    /\ call.tx_size = 133
    /\ ret.val.resource_count.resource_state_bytes = 499232

\* C13: the usage a cost query returns is the usage the resource counter
\* returns for the same transaction and size, not that usage scaled by the
\* resource units.
C13_UsageIsRaw ==
    (call.op = "get_transaction_rc_cost" /\ ret.err = "none") =>
        ret.val.usage = ResourceCounter(call.tx, call.tx_size).val

\* the orderings of n operations
Orderings(n) ==
    {f \in [1..n -> 1..n] : \A i, j \in 1..n : f[i] = f[j] => i = j}

Permuted(tx, f) ==
    [operations |-> [i \in 1..Len(tx.operations) |-> tx.operations[f[i]]]]

\* C14: the usage does not depend on the order of the operations: every
\* reordering of a transaction that is counted gives the same five values,
\* and every reordering of one that raises raises too.
C14_OrderIndependent ==
    (call.op = "count_resources") =>
        \A f \in Orderings(Len(call.tx.operations)) :
            LET r2 == ResourceCounter(Permuted(call.tx, f), call.tx_size)
            IN  IF ret.err = "none" THEN r2 = ret ELSE r2.err # "none"

\* two different operations, each adding state bytes
C14_Witness ==
    /\ CounterReturned
    /\ Len(call.tx.operations) = 2
    /\ call.tx.operations[1] # call.tx.operations[2]
    /\ StateBytesOf(call.tx.operations[1]) > 0
    /\ StateBytesOf(call.tx.operations[2]) > StateBytesOf(call.tx.operations[1])
    /\ ret.val.resource_count.resource_state_bytes
         >   size_info.transaction_object_base_size
           + StateBytesOf(call.tx.operations[2])

IsFreeClaim(op) ==
    op.type = "claim_account_operation" /\ op.value.fee.amount = 0

IsNoClaim(op) == op.type # "claim_account_operation"

\* C16: new_accounts is the number of claim-account operations whose fee
\* amount is 0; a claim with another fee and every other operation add
\* nothing to it, and the claim-account operations add no state bytes (the
\* transaction without them has the same state_bytes).
C16_NewAccounts ==
    CounterReturned =>
        /\ ret.val.resource_count.resource_new_accounts
             = Cardinality({i \in 1..Len(call.tx.operations) :
                               IsFreeClaim(call.tx.operations[i])})
        /\ LET rest == ResourceCounter(
                          [operations |-> SelectSeq(call.tx.operations, IsNoClaim)],
                          call.tx_size)
           IN  /\ rest.err = "none"
               /\ rest.val.resource_count.resource_state_bytes
                    = ret.val.resource_count.resource_state_bytes

\* C15: queries in flight together against the same pool, regen rate and
\* configuration, stepped in any interleaving, each return what the same
\* query returns when run alone on a fresh model: no counter of one
\* transaction's visitor reaches another transaction's usage or cost.
C15_QueriesIndependent ==
    \A q \in Queries :
        ret[q].pc = "done" =>
            ret[q].result = get_transaction_rc_cost(SamplePool, SampleRegen,
                                                    call[q].tx, call[q].tx_size)

\* a query that returned a usage while another, for a different transaction,
\* was part-way through its operations
C15_Witness ==
    \E q, p \in Queries :
        /\ ret[q].pc = "done"
        /\ ret[q].result.err = "none"
        /\ Len(call[q].tx.operations) > 0
        /\ ret[p].pc = "visiting"
        /\ ret[p].pos > 0
        /\ ret[p].pos < Len(call[p].tx.operations)
        /\ call[p].tx # call[q].tx

====
